---- MODULE Spec2Model ----
(***************************************************************************)
(* Client-side session orchestration of the Sankalp DBMS frontend: the App *)
(* component (datasets, selection, query history, onboarding flag, view),  *)
(* the FileUpload, QueryEditor and DataManager components that call into   *)
(* it, and the ApiService requests in flight between them and the remote   *)
(* service.  Handlers are React closures: a handler that awaits a remote   *)
(* call keeps the props and state of the render in which it was started.   *)
(***************************************************************************)
EXTENDS Bags, FiniteSets, Integers, Sequences, TLC

(* ------------------------------ bounds --------------------------------- *)
\* dataset ids the remote service hands out to uploads
MaxDatasetId == 2
\* remote query requests issued in one session
MaxQueries == 2
\* remote delete requests outstanding at once
MaxDeletes == 1
\* fractions are kept to this many parts of one
Precision == 1000000

(* ------------------------------ values --------------------------------- *)
\* JavaScript null for a dataset reference (dataset ids are positive)
Null == 0

Views == {"dashboard", "upload", "query", "visualize", "tutorial",
          "library", "data", "settings"}

\* the two ApiService classes of the repository
ApiVariants == {"data", "interceptor"}

\* the two DataManager components of the repository
DataManagerVariants == {"callback", "remote"}

\* dataset lists and query lists the remote service may hold at start-up
\* (ids above 10 are datasets and queries of earlier sessions)
RemoteDatasetLists == {<< >>, <<11>>}
RemoteQueryLists == {<< >>, <<[qid |-> 13, datasetId |-> 11, success |-> TRUE]>>}

(* ------------------------------ strings -------------------------------- *)
\* a string is a sequence of one-character strings
toLowerCaseChar(c) ==
    CASE c = "C" -> "c"
      [] c = "S" -> "s"
      [] c = "V" -> "v"
      [] c = "X" -> "x"
      [] c = "L" -> "l"
      [] OTHER -> c

toLowerCase(s) == [i \in 1..Len(s) |-> toLowerCaseChar(s[i])]

\* String.prototype.split(sep).pop(): the part after the last separator,
\* the whole string when there is none
RECURSIVE splitPop(_, _)
splitPop(s, sep) ==
    IF s = << >> THEN << >>
    ELSE IF s[Len(s)] = sep THEN << >>
    ELSE Append(splitPop(SubSeq(s, 1, Len(s) - 1), sep), s[Len(s)])

\* String.prototype.trim() over the blank character " "
RECURSIVE trimStart(_)
trimStart(s) ==
    IF s # << >> /\ Head(s) = " " THEN trimStart(Tail(s)) ELSE s

RECURSIVE trimEnd(_)
trimEnd(s) ==
    IF s # << >> /\ s[Len(s)] = " " THEN trimEnd(SubSeq(s, 1, Len(s) - 1)) ELSE s

\* a slip: the text is tested as typed, without trim()
trimNothing(s) == s

trim(s) == trimEnd(trimStart(s))

\* file names a user may drop on the upload area
FileNames == {
    <<"a", ".", "c", "s", "v">>,
    <<"a", ".", "C", "S", "V">>,
    <<"a", ".", "j", "s", "o", "n">>,
    <<"a", ".", "x", "l", "s", "x">>,
    <<"a", ".", "X", "l", "s">>,
    <<"a", ".", "t", "x", "t">>,
    <<"a", ".", "c", "s", "v", ".", "t", "x", "t">>,
    <<"a", ".", "t", "x", "t", ".", "c", "s", "v">>,
    <<"a", ".">>,
    <<"a", "c", "s", "v">>,
    <<"c", "s", "v">> }

\* texts a user may have in the query box
QueryTexts == { << >>, <<" ">>, <<"q">>, <<" ", "q">> }

\* the allowed file types the remote configuration may hold
RemoteAllowLists ==
    { { <<"c", "s", "v">>, <<"j", "s", "o", "n">>,
        <<"x", "l", "s", "x">>, <<"x", "l", "s">> },
      { <<"c", "s", "v">>, <<"j", "s", "o", "n">> } }

(* ------------------------------- state --------------------------------- *)
VARIABLES
    \* which ApiService / DataManager source variant is built in
    apiVariant, dataManagerVariant,
    \* what the remote service holds when the page loads
    remoteDatasets, remoteQueries, remoteAllowedTypes,
    \* App state (useState hooks)
    currentView, datasets, selectedDataset, loading, config, queryHistory,
    isOnboarding,
    \* the message the last handler surfaced (toast or console.error), "" if none
    surfaced,
    \* initializeApp: the await it is suspended at, and its local datasetsData
    initPc, datasetsData,
    \* FileUpload state
    isUploading, uploadedFile,
    \* QueryEditor state
    query, isExecuting,
    \* DataManager state (managerLoading exists in the "remote" variant only)
    datasetToDelete, showDeleteModal, managerLoading,
    \* Tutorial state
    currentLevel, currentLesson, completedLessons,
    \* remote requests in flight
    uploads, queries, deletes,
    \* ids given to uploads and to query requests, in order of initiation
    nextDatasetId, nextQueryId

appVars == <<currentView, datasets, selectedDataset, loading, config,
             queryHistory, isOnboarding, surfaced>>
envVars == <<apiVariant, dataManagerVariant, remoteDatasets, remoteQueries,
             remoteAllowedTypes>>
initVars == <<initPc, datasetsData>>
uploadVars == <<isUploading, uploadedFile>>
editorVars == <<query, isExecuting>>
managerVars == <<datasetToDelete, showDeleteModal, managerLoading>>
tutorialVars == <<currentLevel, currentLesson, completedLessons>>
flightVars == <<uploads, queries, deletes, nextDatasetId, nextQueryId>>

vars == <<appVars, envVars, initVars, uploadVars, editorVars, managerVars,
          tutorialVars, flightVars>>

(* --------------------------- sequence helpers -------------------------- *)
Range(s) == {s[i] : i \in 1..Len(s)}

\* prev.filter(d => d.id !== datasetId)
withoutId(prev, datasetId) == SelectSeq(prev, LAMBDA d : d # datasetId)

(* ---------------------------- construction ----------------------------- *)
Init ==
    /\ apiVariant \in ApiVariants
    /\ dataManagerVariant \in DataManagerVariants
    /\ remoteDatasets \in RemoteDatasetLists
    /\ remoteQueries \in RemoteQueryLists
    /\ remoteAllowedTypes \in RemoteAllowLists
    /\ currentView = "dashboard"
    /\ datasets = << >>
    /\ selectedDataset = Null
    /\ loading = TRUE
    /\ config = "null"
    /\ queryHistory = << >>
    /\ isOnboarding = FALSE
    /\ surfaced = ""
    /\ initPc = "getConfig"
    /\ datasetsData = [wrapped |-> FALSE, list |-> << >>]
    /\ isUploading = FALSE
    /\ uploadedFile = Null
    /\ query = << >>
    /\ isExecuting = FALSE
    /\ datasetToDelete = Null
    /\ showDeleteModal = FALSE
    /\ managerLoading = FALSE
    /\ currentLevel = 1
    /\ currentLesson = 1
    /\ completedLessons = {}
    /\ uploads = {}
    /\ queries = {}
    /\ deletes = EmptyBag
    /\ nextDatasetId = 1
    /\ nextQueryId = 1

(* ----------------------------- ApiService ------------------------------ *)
\* What getDatasets / getQueryHistory resolve to.  The "data" variant returns
\* response.data.datasets (the array itself); the "interceptor" variant
\* returns the response body, an object holding the array in a field.
getList(variant, list) ==
    [wrapped |-> (variant = "interceptor"), list |-> list]

\* x.datasets || [] (and x.queries || []) as initializeApp evaluates it: the
\* field of the response body, and [] when x is an array, whose .datasets is
\* undefined
fieldOrEmpty(x) == IF x.wrapped THEN x.list ELSE << >>

(* ---------------------------- initializeApp ---------------------------- *)
\* await apiService.getConfig() resolves: setConfig, then getDatasets is sent
InitConfigOk ==
    /\ initPc = "getConfig"
    /\ config' = "remote"
    /\ initPc' = "getDatasets"
    /\ surfaced' = ""
    /\ UNCHANGED <<currentView, datasets, selectedDataset, loading,
                   queryHistory, isOnboarding, datasetsData>>
    /\ UNCHANGED tutorialVars
    /\ UNCHANGED <<envVars, uploadVars, editorVars, managerVars, flightVars>>

\* await apiService.getDatasets() resolves: setDatasets, then getQueryHistory
InitDatasetsOk ==
    /\ initPc = "getDatasets"
    /\ datasetsData' = getList(apiVariant, remoteDatasets)
    /\ datasets' = fieldOrEmpty(datasetsData')
    /\ initPc' = "getQueryHistory"
    /\ surfaced' = ""
    /\ UNCHANGED <<currentView, selectedDataset, loading, config,
                   queryHistory, isOnboarding>>
    /\ UNCHANGED tutorialVars
    /\ UNCHANGED <<envVars, uploadVars, editorVars, managerVars, flightVars>>

\* await apiService.getQueryHistory() resolves: setQueryHistory, the
\* first-time-user check, and the finally block
InitHistoryOk ==
    /\ initPc = "getQueryHistory"
    /\ LET queryHistoryData == getList(apiVariant, remoteQueries)
           hasDatasets == datasetsData.wrapped /\ Len(datasetsData.list) > 0
           hasQueries == queryHistoryData.wrapped /\ Len(queryHistoryData.list) > 0
       IN /\ queryHistory' = fieldOrEmpty(queryHistoryData)
          /\ isOnboarding' = IF ~hasDatasets /\ ~hasQueries THEN TRUE
                             ELSE isOnboarding
    /\ loading' = FALSE
    /\ initPc' = "done"
    /\ surfaced' = ""
    /\ UNCHANGED <<currentView, datasets, selectedDataset, config, datasetsData>>
    /\ UNCHANGED tutorialVars
    /\ UNCHANGED <<envVars, uploadVars, editorVars, managerVars, flightVars>>

\* what the catch block of initializeApp logs when the fetch it awaits rejects
initError(pc) ==
    CASE pc = "getConfig" -> "Error initializing app: Failed to get configuration"
      [] pc = "getDatasets" -> "Error initializing app: Failed to get datasets"
      [] OTHER -> "Error initializing app: Failed to get query history"

\* a slip: no finally block, loading is cleared on success only
InitFetchFailStuck ==
    /\ initPc \in {"getConfig", "getDatasets", "getQueryHistory"}
    /\ surfaced' = initError(initPc)
    /\ initPc' = "done"
    /\ UNCHANGED <<currentView, datasets, selectedDataset, loading, config,
                   queryHistory, isOnboarding, datasetsData>>
    /\ UNCHANGED tutorialVars
    /\ UNCHANGED <<envVars, uploadVars, editorVars, managerVars, flightVars>>

\* the awaited fetch rejects: the one catch block logs, the finally block
\* clears loading, and the fetches after it are never sent
InitFetchFail ==
    /\ initPc \in {"getConfig", "getDatasets", "getQueryHistory"}
    /\ surfaced' = initError(initPc)
    /\ loading' = FALSE
    /\ initPc' = "done"
    /\ UNCHANGED <<currentView, datasets, selectedDataset, config,
                   queryHistory, isOnboarding, datasetsData>>
    /\ UNCHANGED tutorialVars
    /\ UNCHANGED <<envVars, uploadVars, editorVars, managerVars, flightVars>>

(* ------------------------------ App views ------------------------------ *)
\* a request whose component instance has been unmounted: its setState calls
\* no longer reach any mounted component
orphan(r) == [r EXCEPT !.live = FALSE]

\* the same for the delete requests the DataManager sent itself; the ones
\* handleDatasetDelete sent belong to the App, which never unmounts
orphanDelete(r) == IF r.from = "manager" THEN orphan(r) ELSE r

orphanBag(B) ==
    LET S == BagToSet(B)
        image == {orphanDelete(r) : r \in S}
    IN [o \in image |->
          LET alive == [o EXCEPT !.live = TRUE]
          IN IF o.from = "manager" /\ ~o.live
             THEN (IF o \in S THEN B[o] ELSE 0) + (IF alive \in S THEN B[alive] ELSE 0)
             ELSE B[o]]

\* setCurrentView(v): the component of the old view unmounts and loses its
\* state, the component of the new view mounts with its initial state
setCurrentView(v) ==
    /\ currentView' = v
    /\ IF v = currentView
       THEN UNCHANGED <<uploadVars, editorVars, managerVars, tutorialVars,
                        uploads, queries, deletes>>
       ELSE /\ isUploading' = FALSE
            /\ uploadedFile' = Null
            /\ query' = << >>
            /\ isExecuting' = FALSE
            /\ datasetToDelete' = Null
            /\ showDeleteModal' = FALSE
            /\ managerLoading' = FALSE
            /\ currentLevel' = 1
            /\ currentLesson' = 1
            /\ completedLessons' = {}
            /\ uploads' = {orphan(r) : r \in uploads}
            /\ queries' = {orphan(r) : r \in queries}
            /\ deletes' = orphanBag(deletes)

\* a sidebar button, or a Dashboard shortcut
Navigate(v) ==
    /\ ~loading
    /\ v # currentView
    /\ setCurrentView(v)
    /\ surfaced' = ""
    /\ UNCHANGED <<datasets, selectedDataset, loading, config, queryHistory,
                   isOnboarding>>
    /\ UNCHANGED <<envVars, initVars, nextDatasetId, nextQueryId>>

\* Array.prototype.slice(0, n)
slice(s, n) == SubSeq(s, 1, IF Len(s) < n THEN Len(s) ELSE n)

\* the datasets the mounted view offers for selection: the Dashboard lists
\* the five most recent, FileUpload and DataManager all of them, QueryEditor
\* the first three while none is selected
selectable ==
    CASE currentView = "dashboard" -> Range(slice(datasets, 5))
      [] currentView \in {"upload", "data"} -> Range(datasets)
      [] currentView = "query" ->
            IF selectedDataset = Null THEN Range(slice(datasets, 3)) ELSE {}
      [] OTHER -> {}

\* handleDatasetSelect, from a dataset list of the mounted view
HandleDatasetSelect(dataset) ==
    /\ ~loading
    /\ dataset \in selectable
    /\ selectedDataset' = dataset
    /\ surfaced' = ""
    /\ UNCHANGED <<currentView, datasets, loading, config, queryHistory,
                   isOnboarding>>
    /\ UNCHANGED tutorialVars
    /\ UNCHANGED <<envVars, initVars, uploadVars, editorVars, managerVars,
                   flightVars>>

\* the datasets a caller of handleDatasetSelect may name: those uploaded in
\* a session and the one the remote holds
DatasetIds == (1..MaxDatasetId) \cup UNION {Range(l) : l \in RemoteDatasetLists}

\* handleDatasetSelect as the operation the App hands to its views
\* (onDatasetSelect), called with any dataset
SelectDataset(dataset) ==
    /\ ~loading
    /\ selectedDataset' = dataset
    /\ surfaced' = ""
    /\ UNCHANGED <<currentView, datasets, loading, config, queryHistory,
                   isOnboarding>>
    /\ UNCHANGED tutorialVars
    /\ UNCHANGED <<envVars, initVars, uploadVars, editorVars, managerVars,
                   flightVars>>

\* onOnboardingComplete of the Dashboard
OnboardingComplete ==
    /\ ~loading
    /\ currentView = "dashboard"
    /\ isOnboarding
    /\ isOnboarding' = FALSE
    /\ surfaced' = ""
    /\ UNCHANGED <<currentView, datasets, selectedDataset, loading, config,
                   queryHistory>>
    /\ UNCHANGED tutorialVars
    /\ UNCHANGED <<envVars, initVars, uploadVars, editorVars, managerVars,
                   flightVars>>

(* ----------------------------- FileUpload ------------------------------ *)
supportedTypes == { <<"c", "s", "v">>, <<"j", "s", "o", "n">>,
                    <<"x", "l", "s", "x">>, <<"x", "l", "s">> }

\* a slip: split('.')[1], the part after the first dot, not the last
fileExtensionFirstDot(name) ==
    LET dots == {i \in 1..Len(name) : name[i] = "."}
        first == CHOOSE i \in dots : \A j \in dots : i <= j
        later == {i \in dots : i > first}
        stop == IF later = {} THEN Len(name) + 1
                ELSE CHOOSE i \in later : \A j \in later : i <= j
    IN IF dots = {} THEN toLowerCase(name)
       ELSE toLowerCase(SubSeq(name, first + 1, stop - 1))

\* file.name.split('.').pop().toLowerCase()
fileExtension(name) == toLowerCase(splitPop(name, "."))

\* handleDatasetUpload of the App render in which the drop happened:
\* selectedAtCall is that render's selectedDataset
handleDatasetUpload(uploadedDataset, selectedAtCall) ==
    /\ datasets' = <<uploadedDataset>> \o datasets
    /\ selectedDataset' = IF selectedAtCall = Null THEN uploadedDataset
                          ELSE selectedDataset

\* onDrop up to its await: acceptedFiles is what the dropzone hands over
OnDrop(acceptedFiles) ==
    /\ ~loading
    /\ currentView = "upload"
    /\ IF acceptedFiles = << >>
       THEN /\ surfaced' = ""
            /\ UNCHANGED <<uploadVars, uploads, nextDatasetId>>
       ELSE IF fileExtension(acceptedFiles[1]) \notin supportedTypes
       THEN /\ surfaced' = "Unsupported file type"
            /\ UNCHANGED <<uploadVars, uploads, nextDatasetId>>
       ELSE /\ nextDatasetId <= MaxDatasetId
            /\ isUploading' = TRUE
            /\ uploads' = uploads \cup {[id |-> nextDatasetId,
                                         sel |-> selectedDataset,
                                         live |-> TRUE]}
            /\ nextDatasetId' = nextDatasetId + 1
            /\ surfaced' = ""
            /\ UNCHANGED uploadedFile
    /\ UNCHANGED <<currentView, datasets, selectedDataset, loading, config,
                   queryHistory, isOnboarding>>
    /\ UNCHANGED tutorialVars
    /\ UNCHANGED <<envVars, initVars, editorVars, managerVars, queries,
                   deletes, nextQueryId>>

\* a slip: the onboarding flag is re-derived when an upload completes
UploadOkDismisses(r) ==
    /\ r \in uploads
    /\ uploads' = uploads \ {r}
    /\ uploadedFile' = IF r.live THEN r.id ELSE uploadedFile
    /\ handleDatasetUpload(r.id, r.sel)
    /\ surfaced' = "File uploaded successfully!"
    /\ isUploading' = IF r.live THEN FALSE ELSE isUploading
    /\ isOnboarding' = FALSE
    /\ UNCHANGED <<currentView, loading, config, queryHistory>>
    /\ UNCHANGED tutorialVars
    /\ UNCHANGED <<envVars, initVars, editorVars, managerVars, queries,
                   deletes, nextDatasetId, nextQueryId>>

\* apiService.uploadFile resolves: the rest of onDrop's try block, and finally
UploadOk(r) ==
    /\ r \in uploads
    /\ uploads' = uploads \ {r}
    /\ uploadedFile' = IF r.live THEN r.id ELSE uploadedFile
    /\ handleDatasetUpload(r.id, r.sel)
    /\ surfaced' = "File uploaded successfully!"
    /\ isUploading' = IF r.live THEN FALSE ELSE isUploading
    /\ UNCHANGED <<currentView, loading, config, queryHistory, isOnboarding>>
    /\ UNCHANGED tutorialVars
    /\ UNCHANGED <<envVars, initVars, editorVars, managerVars, queries,
                   deletes, nextDatasetId, nextQueryId>>

\* apiService.uploadFile rejects: onDrop's catch block, and finally
UploadFail(r) ==
    /\ r \in uploads
    /\ uploads' = uploads \ {r}
    /\ surfaced' = "Failed to upload file"
    /\ isUploading' = IF r.live THEN FALSE ELSE isUploading
    /\ UNCHANGED <<currentView, datasets, selectedDataset, loading, config,
                   queryHistory, isOnboarding, uploadedFile>>
    /\ UNCHANGED tutorialVars
    /\ UNCHANGED <<envVars, initVars, editorVars, managerVars, queries,
                   deletes, nextDatasetId, nextQueryId>>

\* the Start Querying button: onDatasetSelect(uploadedFile)
StartQuerying ==
    /\ ~loading
    /\ currentView = "upload"
    /\ uploadedFile # Null /\ ~isUploading
    /\ selectedDataset' = uploadedFile
    /\ surfaced' = ""
    /\ UNCHANGED <<currentView, datasets, loading, config, queryHistory,
                   isOnboarding>>
    /\ UNCHANGED tutorialVars
    /\ UNCHANGED <<envVars, initVars, uploadVars, editorVars, managerVars,
                   flightVars>>

(* ----------------------------- QueryEditor ----------------------------- *)
\* onChange of the textarea, which is disabled while isExecuting
SetQuery(text) ==
    /\ ~loading
    /\ currentView = "query"
    /\ ~isExecuting
    /\ query' = text
    /\ surfaced' = ""
    /\ UNCHANGED isExecuting
    /\ UNCHANGED <<currentView, datasets, selectedDataset, loading, config,
                   queryHistory, isOnboarding>>
    /\ UNCHANGED tutorialVars
    /\ UNCHANGED <<envVars, initVars, uploadVars, managerVars, flightVars>>

\* a slip: the record is put at the end of the history
handleQueryExecutionAppend(queryResult) ==
    queryHistory' = Append(queryHistory, queryResult)

\* handleQueryExecution of the App
handleQueryExecution(queryResult) ==
    queryHistory' = <<queryResult>> \o queryHistory

\* executeQuery up to its await, from Ctrl+Enter in the textarea or from the
\* Execute button; both controls are disabled while isExecuting
ExecuteQuery ==
    /\ ~loading
    /\ currentView = "query"
    /\ ~isExecuting
    /\ IF trim(query) = << >>
       THEN /\ surfaced' = "Please enter a query"
            /\ UNCHANGED <<isExecuting, queries, nextQueryId>>
       ELSE IF selectedDataset = Null
       THEN /\ surfaced' = "Please select a dataset first"
            /\ UNCHANGED <<isExecuting, queries, nextQueryId>>
       ELSE /\ nextQueryId <= MaxQueries
            /\ isExecuting' = TRUE
            /\ queries' = queries \cup {[qid |-> nextQueryId,
                                         datasetId |-> selectedDataset,
                                         live |-> TRUE]}
            /\ nextQueryId' = nextQueryId + 1
            /\ surfaced' = ""
    /\ UNCHANGED query
    /\ UNCHANGED <<currentView, datasets, selectedDataset, loading, config,
                   queryHistory, isOnboarding>>
    /\ UNCHANGED tutorialVars
    /\ UNCHANGED <<envVars, initVars, uploadVars, managerVars, uploads,
                   deletes, nextDatasetId>>

\* apiService.executeQuery resolves with a result whose success field is
\* `success`: the rest of executeQuery's try block, and finally
QueryOk(r, success) ==
    /\ r \in queries
    /\ queries' = queries \ {r}
    /\ handleQueryExecution([qid |-> r.qid, datasetId |-> r.datasetId,
                             success |-> success])
    /\ surfaced' = IF success THEN "Query executed successfully!"
                   ELSE "Query execution failed"
    /\ isExecuting' = IF r.live THEN FALSE ELSE isExecuting
    /\ UNCHANGED query
    /\ UNCHANGED <<currentView, datasets, selectedDataset, loading, config,
                   isOnboarding>>
    /\ UNCHANGED tutorialVars
    /\ UNCHANGED <<envVars, initVars, uploadVars, managerVars, uploads,
                   deletes, nextDatasetId, nextQueryId>>

\* apiService.executeQuery rejects (server error status, network error or
\* timeout): executeQuery's catch block, and finally
QueryFail(r) ==
    /\ r \in queries
    /\ queries' = queries \ {r}
    /\ surfaced' = "Failed to execute query"
    /\ isExecuting' = IF r.live THEN FALSE ELSE isExecuting
    /\ UNCHANGED query
    /\ UNCHANGED <<currentView, datasets, selectedDataset, loading, config,
                   queryHistory, isOnboarding>>
    /\ UNCHANGED tutorialVars
    /\ UNCHANGED <<envVars, initVars, uploadVars, managerVars, uploads,
                   deletes, nextDatasetId, nextQueryId>>

(* ----------------------------- DataManager ----------------------------- *)
\* handleDeleteDataset: the trash button of a dataset row
HandleDeleteDataset(dataset) ==
    /\ ~loading
    /\ currentView = "data"
    /\ dataset \in Range(datasets)
    /\ datasetToDelete' = dataset
    /\ showDeleteModal' = TRUE
    /\ surfaced' = ""
    /\ UNCHANGED managerLoading
    /\ UNCHANGED <<currentView, datasets, selectedDataset, loading, config,
                   queryHistory, isOnboarding>>
    /\ UNCHANGED tutorialVars
    /\ UNCHANGED <<envVars, initVars, uploadVars, editorVars, flightVars>>

\* the Cancel button of the delete modal
CancelDelete ==
    /\ ~loading
    /\ currentView = "data"
    /\ showDeleteModal
    /\ ~managerLoading
    /\ showDeleteModal' = FALSE
    /\ surfaced' = ""
    /\ UNCHANGED <<datasetToDelete, managerLoading>>
    /\ UNCHANGED <<currentView, datasets, selectedDataset, loading, config,
                   queryHistory, isOnboarding>>
    /\ UNCHANGED tutorialVars
    /\ UNCHANGED <<envVars, initVars, uploadVars, editorVars, flightVars>>

\* a remote delete request: from is "app" for the one handleDatasetDelete
\* sends and "manager" for the one the "remote" DataManager sends itself;
\* sel is selectedDataset of the App render in which Delete was confirmed
deleteRequest(datasetId, from) ==
    [id |-> datasetId, sel |-> selectedDataset, from |-> from, live |-> TRUE]

\* confirmDelete up to where it returns or awaits.  The "callback" variant
\* calls onDatasetDelete (handleDatasetDelete, which sends the request) and
\* closes the modal; the "remote" variant sends the request itself.
ConfirmDelete ==
    /\ ~loading
    /\ currentView = "data"
    /\ showDeleteModal
    /\ ~managerLoading
    /\ surfaced' = ""
    /\ IF datasetToDelete = Null
       THEN UNCHANGED <<managerVars, deletes>>
       ELSE /\ BagCardinality(deletes) < MaxDeletes
            /\ IF dataManagerVariant = "callback"
               THEN /\ deletes' = deletes (+) SetToBag({deleteRequest(datasetToDelete, "app")})
                    /\ showDeleteModal' = FALSE
                    /\ datasetToDelete' = Null
                    /\ UNCHANGED managerLoading
               ELSE /\ deletes' = deletes (+) SetToBag({deleteRequest(datasetToDelete, "manager")})
                    /\ managerLoading' = TRUE
                    /\ UNCHANGED <<datasetToDelete, showDeleteModal>>
    /\ UNCHANGED <<currentView, datasets, selectedDataset, loading, config,
                   queryHistory, isOnboarding>>
    /\ UNCHANGED tutorialVars
    /\ UNCHANGED <<envVars, initVars, uploadVars, editorVars, uploads, queries,
                   nextDatasetId, nextQueryId>>

\* the "remote" DataManager's own delete call resolves: onDatasetDelete is
\* called (handleDatasetDelete sends its request), then the modal is closed
ManagerDeleteOk(r) ==
    /\ BagIn(r, deletes) /\ r.from = "manager"
    /\ deletes' = (deletes (-) SetToBag({r})) (+) SetToBag({[r EXCEPT !.from = "app"]})
    /\ surfaced' = "Dataset deleted successfully"
    /\ IF r.live
       THEN /\ showDeleteModal' = FALSE
            /\ datasetToDelete' = Null
            /\ managerLoading' = FALSE
       ELSE UNCHANGED managerVars
    /\ UNCHANGED <<currentView, datasets, selectedDataset, loading, config,
                   queryHistory, isOnboarding>>
    /\ UNCHANGED tutorialVars
    /\ UNCHANGED <<envVars, initVars, uploadVars, editorVars, uploads, queries,
                   nextDatasetId, nextQueryId>>

\* the "remote" DataManager's own delete call rejects
ManagerDeleteFail(r) ==
    /\ BagIn(r, deletes) /\ r.from = "manager"
    /\ deletes' = deletes (-) SetToBag({r})
    /\ surfaced' = "Failed to delete dataset"
    /\ managerLoading' = IF r.live THEN FALSE ELSE managerLoading
    /\ UNCHANGED <<datasetToDelete, showDeleteModal>>
    /\ UNCHANGED <<currentView, datasets, selectedDataset, loading, config,
                   queryHistory, isOnboarding>>
    /\ UNCHANGED tutorialVars
    /\ UNCHANGED <<envVars, initVars, uploadVars, editorVars, uploads, queries,
                   nextDatasetId, nextQueryId>>

\* a slip: the selection is kept when the selected dataset is deleted
handleDatasetDeleteKeepsSelection(datasetId, selectedAtCall) ==
    /\ datasets' = withoutId(datasets, datasetId)
    /\ UNCHANGED selectedDataset

\* handleDatasetDelete after its await resolved: selectedAtCall is
\* selectedDataset of the render the handler was created in
handleDatasetDelete(datasetId, selectedAtCall) ==
    /\ datasets' = withoutId(datasets, datasetId)
    /\ selectedDataset' = IF selectedAtCall = datasetId THEN Null
                          ELSE selectedDataset

\* apiService.deleteDataset of handleDatasetDelete resolves
DeleteOk(r) ==
    /\ BagIn(r, deletes) /\ r.from = "app"
    /\ deletes' = deletes (-) SetToBag({r})
    /\ handleDatasetDelete(r.id, r.sel)
    /\ surfaced' = ""
    /\ UNCHANGED <<currentView, loading, config, queryHistory, isOnboarding>>
    /\ UNCHANGED tutorialVars
    /\ UNCHANGED <<envVars, initVars, uploadVars, editorVars, managerVars,
                   uploads, queries, nextDatasetId, nextQueryId>>

\* a slip: an optimistic delete, which drops the dataset although the remote
\* call rejected
DeleteFailOptimistic(r) ==
    /\ BagIn(r, deletes) /\ r.from = "app"
    /\ deletes' = deletes (-) SetToBag({r})
    /\ surfaced' = "Error deleting dataset:"
    /\ handleDatasetDelete(r.id, r.sel)
    /\ UNCHANGED <<currentView, loading, config, queryHistory, isOnboarding>>
    /\ UNCHANGED tutorialVars
    /\ UNCHANGED <<envVars, initVars, uploadVars, editorVars, managerVars,
                   uploads, queries, nextDatasetId, nextQueryId>>

\* apiService.deleteDataset of handleDatasetDelete rejects: the catch block
DeleteFail(r) ==
    /\ BagIn(r, deletes) /\ r.from = "app"
    /\ deletes' = deletes (-) SetToBag({r})
    /\ surfaced' = "Error deleting dataset:"
    /\ UNCHANGED <<currentView, datasets, selectedDataset, loading, config,
                   queryHistory, isOnboarding>>
    /\ UNCHANGED tutorialVars
    /\ UNCHANGED <<envVars, initVars, uploadVars, editorVars, managerVars,
                   uploads, queries, nextDatasetId, nextQueryId>>

\* onDatasetEdit of the DataManager: select the dataset and open the editor
DatasetEdit(dataset) ==
    /\ ~loading
    /\ currentView = "data"
    /\ dataset \in Range(datasets)
    /\ selectedDataset' = dataset
    /\ setCurrentView("query")
    /\ surfaced' = ""
    /\ UNCHANGED <<datasets, loading, config, queryHistory, isOnboarding>>
    /\ UNCHANGED <<envVars, initVars, nextDatasetId, nextQueryId>>

(* ------------------------------ Tutorial ------------------------------- *)
\* the static catalog: the ids of the levels and of their lessons, in order
tutorialLevels ==
    << [id |-> 1, lessons |-> <<1, 2, 3>>],
       [id |-> 2, lessons |-> <<1, 2>>],
       [id |-> 3, lessons |-> <<1, 2>>],
       [id |-> 4, lessons |-> <<1, 2>>] >>

\* Array.prototype.find over ids: the position of the first element with
\* that id, Null (undefined) when there is none
find(s, id) ==
    LET hits == {i \in 1..Len(s) : s[i] = id}
    IN IF hits = {} THEN Null
       ELSE CHOOSE i \in hits : \A j \in hits : i <= j

\* tutorialLevels.find(level => level.id === levelId)
findLevel(levelId) ==
    find([k \in 1..Len(tutorialLevels) |-> tutorialLevels[k].id], levelId)

\* level.lessons of the level found at position i
lessonsOf(i) == tutorialLevels[i].lessons

\* the decimal digits of a number, as a template literal prints it
RECURSIVE numberToString(_)
numberToString(n) ==
    LET digit == <<"0", "1", "2", "3", "4", "5", "6", "7", "8", "9">>[(n % 10) + 1]
    IN IF n < 10 THEN <<digit>> ELSE numberToString(n \div 10) \o <<digit>>

\* `${levelId}-${lessonId}`
lessonKey(levelId, lessonId) ==
    numberToString(levelId) \o <<"-">> \o numberToString(lessonId)

currentLevelData == findLevel(currentLevel)

\* currentLevelData?.lessons.find(lesson => lesson.id === currentLesson):
\* Null when the level or the lesson does not exist
currentLessonData ==
    IF currentLevelData = Null THEN Null
    ELSE find(lessonsOf(currentLevelData), currentLesson)

isLessonCompleted(levelId, lessonId) ==
    lessonKey(levelId, lessonId) \in completedLessons

\* a slip: some() where every() is meant
isLevelUnlockedSome(levelId) ==
    IF levelId = 1 THEN TRUE
    ELSE LET previousLevel == findLevel(levelId - 1)
         IN IF previousLevel = Null THEN FALSE
            ELSE \E i \in 1..Len(lessonsOf(previousLevel)) :
                    isLessonCompleted(levelId - 1, lessonsOf(previousLevel)[i])

isLevelUnlocked(levelId) ==
    IF levelId = 1 THEN TRUE
    ELSE LET previousLevel == findLevel(levelId - 1)
         IN IF previousLevel = Null THEN FALSE
            ELSE \A i \in 1..Len(lessonsOf(previousLevel)) :
                    isLessonCompleted(levelId - 1, lessonsOf(previousLevel)[i])

\* a/b as a number with Precision parts of one
divide(a, b) == (a * Precision) \div b

\* a slip: every completed lesson is counted, whatever its level
getLevelProgressAnyLevel(levelId) ==
    LET level == findLevel(levelId)
    IN IF level = Null THEN 0
       ELSE divide(Cardinality(completedLessons), Len(lessonsOf(level))) * 100

\* (completedCount / level.lessons.length) * 100, in parts of Precision
getLevelProgress(levelId) ==
    LET level == findLevel(levelId)
    IN IF level = Null THEN 0
       ELSE LET completedCount ==
                    Cardinality({i \in 1..Len(lessonsOf(level)) :
                                    isLessonCompleted(levelId, lessonsOf(level)[i])})
            IN divide(completedCount, Len(lessonsOf(level))) * 100

\* a slip: the pointer advances by two lessons
completeLessonSkips ==
    /\ completedLessons' = completedLessons \cup {lessonKey(currentLevel, currentLesson)}
    /\ IF currentLesson + 1 < Len(lessonsOf(currentLevelData))
       THEN /\ currentLesson' = currentLesson + 2
            /\ UNCHANGED currentLevel
       ELSE IF currentLevel < Len(tutorialLevels)
       THEN /\ currentLevel' = currentLevel + 1
            /\ currentLesson' = 1
       ELSE UNCHANGED <<currentLevel, currentLesson>>

\* a slip: the pointer stays on the last lesson of a level
completeLessonStaysInLevel ==
    /\ completedLessons' = completedLessons \cup {lessonKey(currentLevel, currentLesson)}
    /\ IF currentLesson < Len(lessonsOf(currentLevelData))
       THEN /\ currentLesson' = currentLesson + 1
            /\ UNCHANGED currentLevel
       ELSE UNCHANGED <<currentLevel, currentLesson>>

completeLesson ==
    /\ completedLessons' = completedLessons \cup {lessonKey(currentLevel, currentLesson)}
    /\ IF currentLesson < Len(lessonsOf(currentLevelData))
       THEN /\ currentLesson' = currentLesson + 1
            /\ UNCHANGED currentLevel
       ELSE IF currentLevel < Len(tutorialLevels)
       THEN /\ currentLevel' = currentLevel + 1
            /\ currentLesson' = 1
       ELSE UNCHANGED <<currentLevel, currentLesson>>

\* the Complete Lesson button, rendered while the pointer is on a lesson of
\* the catalog
CompleteLesson ==
    /\ ~loading
    /\ currentView = "tutorial"
    /\ currentLevelData # Null /\ currentLessonData # Null
    /\ completeLesson
    /\ surfaced' = ""
    /\ UNCHANGED <<currentView, datasets, selectedDataset, loading, config,
                   queryHistory, isOnboarding>>
    /\ UNCHANGED <<envVars, initVars, uploadVars, editorVars, managerVars,
                   flightVars>>

\* the Start Level / Continue button of a LevelCard, rendered for unlocked
\* levels: setCurrentLevel(level.id)
SelectLevel(levelId) ==
    /\ ~loading
    /\ currentView = "tutorial"
    /\ findLevel(levelId) # Null
    /\ isLevelUnlocked(levelId)
    /\ currentLevel' = levelId
    /\ surfaced' = ""
    /\ UNCHANGED <<currentLesson, completedLessons>>
    /\ UNCHANGED <<currentView, datasets, selectedDataset, loading, config,
                   queryHistory, isOnboarding>>
    /\ UNCHANGED <<envVars, initVars, uploadVars, editorVars, managerVars,
                   flightVars>>

(* --------------------------- specifications ---------------------------- *)
Initialize == InitConfigOk \/ InitDatasetsOk \/ InitHistoryOk \/ InitFetchFail

Navigation == \E v \in Views : Navigate(v)

Selection == \E d \in Range(datasets) : HandleDatasetSelect(d) \/ DatasetEdit(d)

Uploading ==
    \/ \E acceptedFiles \in {<< >>} \cup {<<f>> : f \in FileNames} : OnDrop(acceptedFiles)
    \/ \E r \in uploads : UploadOk(r) \/ UploadFail(r)

Querying ==
    \/ \E text \in QueryTexts : SetQuery(text)
    \/ ExecuteQuery
    \/ \E r \in queries : QueryOk(r, TRUE) \/ QueryOk(r, FALSE) \/ QueryFail(r)

Deleting ==
    \/ \E d \in Range(datasets) : HandleDeleteDataset(d)
    \/ CancelDelete
    \/ ConfirmDelete
    \/ \E r \in BagToSet(deletes) :
          ManagerDeleteOk(r) \/ ManagerDeleteFail(r) \/ DeleteOk(r) \/ DeleteFail(r)

Tutoring ==
    \/ CompleteLesson
    \/ \E levelId \in 1..Len(tutorialLevels) : SelectLevel(levelId)

\* the whole client
Next ==
    \/ Initialize
    \/ Navigation
    \/ Selection
    \/ StartQuerying
    \/ OnboardingComplete
    \/ Uploading
    \/ Querying
    \/ Deleting
    \/ Tutoring

Spec == Init /\ [][Next]_vars

\* initializeApp alone, for every build variant and remote content
SpecInit == Init /\ [][Initialize]_vars

\* A session of the "interceptor" build.  The handlers of a session never
\* read apiVariant, and the "data" build starts every session with the empty
\* lists this build starts with when the remote holds nothing.
\* The remote configuration allows the file types the client supports; no
\* handler reads the allow-list.
InitSession ==
    Init /\ apiVariant = "interceptor" /\ remoteAllowedTypes = supportedTypes

\* a session in which the remote holds no query history
InitDatasetSession == InitSession /\ remoteQueries = << >>

\* the views with a dataset list, an upload area or a delete button
DatasetViews == {"dashboard", "upload", "data"}

DatasetNavigation == \E v \in DatasetViews : Navigate(v)

\* the dataset life cycle: uploads, deletions, selections, view changes
NextDatasets == Initialize \/ Navigation \/ Selection \/ StartQuerying
                \/ Uploading \/ Deleting

SpecDatasets == InitSession /\ [][NextDatasets]_vars

\* uploads and deletions only (addDataset / removeDataset), with the view
\* changes needed to reach them
NextAddRemove == Initialize \/ DatasetNavigation \/ Uploading \/ Deleting

SpecAddRemove == InitDatasetSession /\ [][NextAddRemove]_vars

\* uploads, selections and view changes
NextUploads == Initialize \/ Navigation \/ Selection \/ StartQuerying
               \/ Uploading

SpecUploads == InitDatasetSession /\ [][NextUploads]_vars

\* deletions, selections and view changes
NextDeletes == Initialize \/ Navigation \/ Selection \/ Deleting

SpecDeletes == InitDatasetSession /\ [][NextDeletes]_vars

\* query execution over the datasets the remote holds, with selections,
\* deletions and view changes
QueryViews == {"dashboard", "query", "data"}

QueryNavigation == \E v \in QueryViews : Navigate(v)

NextQueries == Initialize \/ QueryNavigation \/ Selection \/ OnboardingComplete
               \/ Querying \/ Deleting

SpecQueries == InitSession /\ [][NextQueries]_vars

\* the onboarding flag over a whole session: uploads, deletions, selections,
\* query executions, view changes and the dismissal
SessionViews == {"dashboard", "upload", "query", "data"}

SessionNavigation == \E v \in SessionViews : Navigate(v)

\* one supported file and one query text are enough to add datasets and
\* records
SessionUploading ==
    \/ OnDrop(<< <<"a", ".", "c", "s", "v">> >>)
    \/ \E r \in uploads : UploadOk(r) \/ UploadFail(r)

SessionQuerying ==
    \/ SetQuery(<<"q">>)
    \/ ExecuteQuery
    \/ \E r \in queries : QueryOk(r, TRUE) \/ QueryOk(r, FALSE) \/ QueryFail(r)

NextOnboarding == Initialize \/ SessionNavigation \/ Selection
                  \/ OnboardingComplete \/ SessionUploading
                  \/ SessionQuerying \/ Deleting

\* a first session: the remote holds neither datasets nor query history
InitFirstSession == InitDatasetSession /\ remoteDatasets = << >>

SpecOnboarding == InitFirstSession /\ [][NextOnboarding]_vars

\* the tutorial, opened once and never left
OpenTutorial == Navigate("tutorial")

NextTutorial == Initialize \/ OpenTutorial \/ Tutoring

SpecTutorial == InitSession /\ [][NextTutorial]_vars

\* the tutorial with view changes away from it and back
TutorialViews == {"dashboard", "tutorial"}

TutorialNavigation == \E v \in TutorialViews : Navigate(v)

NextTutorialViews == Initialize \/ TutorialNavigation \/ Tutoring

SpecTutorialViews == InitSession /\ [][NextTutorialViews]_vars

\* uploads under every configuration the remote may hold
InitConfiguredSession ==
    /\ Init
    /\ apiVariant = "interceptor"
    /\ remoteDatasets = << >>
    /\ remoteQueries = << >>

SpecConfiguredUploads == InitConfiguredSession /\ [][NextUploads]_vars

\* handleDatasetSelect called by any caller, with view changes
SelectRequests == \E d \in DatasetIds : SelectDataset(d)

NextSelectRequests == Initialize \/ Navigation \/ SelectRequests

SpecSelectRequests == InitDatasetSession /\ [][NextSelectRequests]_vars

\* every build and remote content, where each fetch that initializeApp
\* awaits is eventually answered
SpecReady == Init /\ [][NextTutorialViews]_vars /\ WF_vars(Initialize)

(* ------------------------------- claims -------------------------------- *)
\* C1 (selection integrity): in every state reached by uploads completing
\* and datasets being deleted, the selected dataset is null or is a dataset
\* of the dataset sequence.
SelectionIntegrity ==
    selectedDataset = Null \/ selectedDataset \in Range(datasets)

\* dataset 1 was uploaded and selected, dataset 2 was uploaded, and the
\* deletion of dataset 1 cleared the selection
SelectionIntegrityWitness ==
    /\ remoteDatasets = << >>
    /\ datasets = <<2>>
    /\ selectedDataset = Null

\* C2: when initializeApp has finished, each collection whose own fetch did
\* not fail holds what the remote serves, and each whose fetch failed holds
\* its default; the failure of one fetch does not keep the others from
\* populating.  (Stated for the "interceptor" build, whose responses
\* initializeApp unwraps as they are.)
InitFetchesIndependent ==
    (initPc = "done" /\ apiVariant = "interceptor") =>
        /\ config = IF surfaced = initError("getConfig") THEN "null" ELSE "remote"
        /\ datasets = IF surfaced = initError("getDatasets") THEN << >>
                      ELSE remoteDatasets
        /\ queryHistory = IF surfaced = initError("getQueryHistory") THEN << >>
                          ELSE remoteQueries

\* a remote delete request sent by handleDatasetDelete is answered with a
\* failure in this step
DeleteRejected(r) ==
    /\ BagIn(r, deletes) /\ r.from = "app"
    /\ deletes' = deletes (-) SetToBag({r})
    /\ surfaced' = "Error deleting dataset:"

\* a remote delete request sent by handleDatasetDelete is answered with
\* success in this step
DeleteAcknowledged(r) ==
    /\ BagIn(r, deletes) /\ r.from = "app"
    /\ deletes' = deletes (-) SetToBag({r})
    /\ surfaced' = ""

\* C3: a failed remote delete leaves the dataset sequence and the selection
\* as they were.
FailedDeleteChangesNothing ==
    [][\A r \in BagToSet(deletes) :
          DeleteRejected(r) =>
              datasets' = datasets /\ selectedDataset' = selectedDataset]_vars

\* the delete of the selected dataset 11 has just failed, and 11 is still
\* there and selected
FailedDeleteWitness ==
    /\ surfaced = "Error deleting dataset:"
    /\ datasets = <<11>>
    /\ selectedDataset = 11

\* C4: right after a successful delete response for d is processed, d is not
\* in the dataset sequence and is not the selection, whatever the user did
\* while the request was in flight.
DeleteClearsSelection ==
    [][\A r \in BagToSet(deletes) :
          DeleteAcknowledged(r) =>
              r.id \notin Range(datasets') /\ selectedDataset' # r.id]_vars

\* C5: a successful delete of d removes d from the dataset sequence, makes
\* the selection null if it was d, and leaves the query history as it was.
DeleteEffect ==
    [][\A r \in BagToSet(deletes) :
          DeleteAcknowledged(r) =>
              /\ datasets' = withoutId(datasets, r.id)
              /\ selectedDataset' = IF selectedDataset = r.id THEN Null
                                    ELSE selectedDataset
              /\ queryHistory' = queryHistory]_vars

QueryAnswered(r) ==
    /\ r \in queries
    /\ \A q \in queries' : q.qid # r.qid

\* C7: every query sent to the remote yields one record in front of the
\* history when its response arrives, also when the request failed.
EveryAnswerRecorded ==
    [][\A r \in queries :
          QueryAnswered(r) =>
              /\ Len(queryHistory') = Len(queryHistory) + 1
              /\ Tail(queryHistory') = queryHistory
              /\ Head(queryHistory').qid = r.qid]_vars

\* C8: at most one remote query request is outstanding.
OneQueryInFlight == Cardinality(queries) <= 1

\* C9: at most one remote upload request is outstanding.
OneUploadInFlight == Cardinality(uploads) <= 1

\* the extension of a file name as the claim reads it: what follows the last
\* dot (the whole name when it has none), in lower case
extensionOf(name) ==
    LET dots == {i \in 1..Len(name) : name[i] = "."}
        last == IF dots = {} THEN 0
                ELSE CHOOSE i \in dots : \A j \in dots : j <= i
    IN toLowerCase(SubSeq(name, last + 1, Len(name)))

\* the file types of a Dataset: csv, json, xlsx, xls
FileTypes == { <<"c", "s", "v">>, <<"j", "s", "o", "n">>,
               <<"x", "l", "s", "x">>, <<"x", "l", "s">> }

blank(text) == \A i \in 1..Len(text) : text[i] = " "

\* execute is called with a text or a selection that is rejected locally
LocallyRejected ==
    /\ ExecuteQuery
    /\ (blank(query) \/ selectedDataset = Null)

\* C11: executing with an empty or whitespace-only text, or with no dataset
\* selected, sends no remote query request.
RejectedQueryNotSent ==
    [][LocallyRejected =>
          /\ queries' = queries
          /\ nextQueryId' = nextQueryId]_vars

\* a whitespace-only text was just rejected while a dataset was selected
RejectedQueryNotSentWitness ==
    /\ surfaced = "Please enter a query"
    /\ query = <<" ">>
    /\ selectedDataset # Null
    /\ queries = {}

\* C12: a locally rejected query puts a record with success = false in front
\* of the query history, which grows by one.
RejectedQueryRecorded ==
    [][LocallyRejected =>
          /\ Len(queryHistory') = Len(queryHistory) + 1
          /\ Tail(queryHistory') = queryHistory
          /\ Head(queryHistory').success = FALSE]_vars

\* C13: when initializeApp has completed, onboarding is true exactly if the
\* dataset sequence and the query history are both empty, a failed fetch
\* counting with its fallback value.
OnboardingAtInit ==
    initPc = "done" =>
        (isOnboarding <=> (datasets = << >> /\ queryHistory = << >>))

\* C14: after initialization onboarding never goes from false to true, and it
\* goes from true to false only in a dismissal on the Dashboard, a step that
\* changes nothing else of the session.
OnboardingOnlyDismissed ==
    [][initPc = "done" =>
          /\ (isOnboarding' => isOnboarding)
          /\ (isOnboarding /\ ~isOnboarding' =>
                /\ currentView = "dashboard"
                /\ UNCHANGED <<currentView, datasets, selectedDataset,
                               queryHistory, config, flightVars>>)]_vars

\* onboarding is still shown after an upload, a query and a deletion
OnboardingOnlyDismissedWitness ==
    /\ isOnboarding
    /\ nextDatasetId > 1
    /\ queryHistory # << >>
    /\ datasets = << >>

\* the remote upload request r is answered with the new dataset in this step
UploadAnswered(r) ==
    /\ r \in uploads
    /\ \A u \in uploads' : u.id # r.id
    /\ surfaced' = "File uploaded successfully!"

\* C15: adding a dataset puts it at the head of the dataset sequence, the
\* previous elements following in their order, and makes it the selection if
\* no dataset is selected.
AddDatasetEffect ==
    [][\A r \in uploads :
          UploadAnswered(r) =>
              /\ datasets' = <<r.id>> \o datasets
              /\ (selectedDataset = Null => selectedDataset' = r.id)]_vars

\* the levels of the catalog after the first
LaterLevels == 2..Len(tutorialLevels)

\* every lesson of the lesson list of level k is in the completed set
AllCompleted(k) ==
    \A l \in Range(tutorialLevels[k].lessons) :
        numberToString(k) \o <<"-">> \o numberToString(l) \in completedLessons

\* C16: level 1 is always unlocked, and a later level k is unlocked exactly
\* if every lesson of level k-1 is in the completed set.
LevelUnlockRule ==
    /\ isLevelUnlocked(1)
    /\ \A k \in LaterLevels : isLevelUnlocked(k) <=> AllCompleted(k - 1)

\* level 2 is unlocked and level 3 is not, with a lesson of level 2 completed
LevelUnlockRuleWitness ==
    /\ isLevelUnlocked(2)
    /\ ~isLevelUnlocked(3)
    /\ lessonKey(2, 2) \in completedLessons

\* C17 (level unlock monotonicity): with tutorial operations and view
\* changes, a later level that is unlocked stays unlocked in the next state,
\* and it is locked as long as a lesson of the level before it is missing.
UnlockMonotone ==
    [][\A k \in LaterLevels :
          /\ isLevelUnlocked(k) => isLevelUnlocked(k)'
          /\ ~AllCompleted(k - 1) => ~isLevelUnlocked(k)]_vars

\* C18: the level the pointer is on is an unlocked level.
CurrentLevelUnlocked == isLevelUnlocked(currentLevel)

\* C19: if a level is unlocked so is every level before it, and a completed
\* lesson belongs to an unlocked level.
UnlockedInOrder ==
    /\ \A k \in LaterLevels :
          isLevelUnlocked(k) => \A j \in 1..(k - 1) : isLevelUnlocked(j)
    /\ \A k \in 1..Len(tutorialLevels) :
          \A l \in Range(tutorialLevels[k].lessons) :
              lessonKey(k, l) \in completedLessons => isLevelUnlocked(k)

\* C20: completing the current lesson adds it to the completed set and moves
\* the pointer to the next lesson of the level, else to the first lesson of
\* the next level, else not at all; completing the last lesson of level 1
\* after the others unlocks level 2 and leaves the pointer on its lesson 1.
CompleteLessonEffect ==
    [][CompleteLesson =>
          LET lessons == tutorialLevels[currentLevel].lessons
          IN /\ completedLessons' =
                   completedLessons \cup {lessonKey(currentLevel, currentLesson)}
             /\ <<currentLevel', currentLesson'>> =
                   IF currentLesson < Len(lessons)
                   THEN <<currentLevel, currentLesson + 1>>
                   ELSE IF currentLevel < Len(tutorialLevels)
                   THEN <<currentLevel + 1, 1>>
                   ELSE <<currentLevel, currentLesson>>
             /\ (/\ currentLevel = 1
                 /\ currentLesson = Len(lessons)
                 /\ completedLessons = {lessonKey(1, l) : l \in 1..(Len(lessons) - 1)})
                => /\ ~isLevelUnlocked(2)
                   /\ isLevelUnlocked(2)'
                   /\ currentLevel' = 2 /\ currentLesson' = 1]_vars

\* level 1 was completed in order from the start: the pointer is on level 2,
\* lesson 1
CompleteLessonEffectWitness ==
    /\ currentView = "tutorial"
    /\ completedLessons = {lessonKey(1, l) : l \in 1..3}
    /\ currentLevel = 2 /\ currentLesson = 1

\* C21 (idempotence of completion): completing a lesson that is already in
\* the completed set leaves the size of the set, and the pointer stays or
\* moves one step: to the next lesson or to the first lesson of the next
\* level.
CompletionIdempotent ==
    [][(CompleteLesson /\ lessonKey(currentLevel, currentLesson) \in completedLessons) =>
          /\ Cardinality(completedLessons') = Cardinality(completedLessons)
          /\ <<currentLevel', currentLesson'>> \in
                { <<currentLevel, currentLesson>>,
                  <<currentLevel, currentLesson + 1>>,
                  <<currentLevel + 1, 1>> }]_vars

\* level 1 alone is completed and the pointer is back on its last lesson,
\* which takes completing lessons 1-1 and 1-2 a second time
CompletionIdempotentWitness ==
    /\ completedLessons = {lessonKey(1, l) : l \in 1..3}
    /\ currentLevel = 1 /\ currentLesson = 3

\* the lessons of level k that are in the completed set
CompletedIn(k) ==
    {l \in Range(tutorialLevels[k].lessons) : lessonKey(k, l) \in completedLessons}

\* C22: the progress of a level is within [0,100], 0 when none of its lessons
\* is completed, 100 when all are, and completed / total * 100 (to the
\* precision of the division).
LevelProgressRange ==
    \A k \in 1..Len(tutorialLevels) :
        LET total == Len(tutorialLevels[k].lessons)
            done == Cardinality(CompletedIn(k))
            exact == done * 100 * Precision
        IN /\ getLevelProgress(k) \in 0..(100 * Precision)
           /\ done = 0 => getLevelProgress(k) = 0
           /\ done = total => getLevelProgress(k) = 100 * Precision
           /\ exact - getLevelProgress(k) * total \in 0..(100 * total)

\* level 1 is complete, level 2 is half done and level 3 is untouched
LevelProgressRangeWitness ==
    /\ getLevelProgress(1) = 100 * Precision
    /\ getLevelProgress(2) = 50 * Precision
    /\ getLevelProgress(3) = 0

\* C24: with the configuration loaded, a dropped file is uploaded exactly if
\* its lower-cased extension is in the allow-list of the configuration.
UploadFollowsConfig ==
    [][\A f \in FileNames :
          (OnDrop(<<f>>) /\ config = "remote") =>
              (uploads' # uploads <=> extensionOf(f) \in remoteAllowedTypes)]_vars

\* C23 (completion order equals initiation order): of two datasets that were
\* uploaded in this session the one whose upload was initiated later stands
\* first in the dataset sequence, and likewise for the records of the
\* queries sent in this session in the history.
ResultsInInitiationOrder ==
    /\ \A i, j \in 1..Len(datasets) :
          (i < j /\ datasets[i] < nextDatasetId /\ datasets[j] < nextDatasetId)
              => datasets[i] > datasets[j]
    /\ \A i, j \in 1..Len(queryHistory) :
          (i < j /\ queryHistory[i].qid < nextQueryId
                 /\ queryHistory[j].qid < nextQueryId)
              => queryHistory[i].qid > queryHistory[j].qid

\* a remote delete request for dataset r.id is acknowledged in this step,
\* whichever handler sent it
AnyDeleteAcknowledged(r) == ManagerDeleteOk(r) \/ DeleteOk(r)

\* C27: a confirmed deletion sends one remote delete request: when the
\* remote acknowledges it the dataset leaves the dataset sequence and no
\* further request for it is outstanding.
SingleDeleteRequest ==
    [][\A r \in BagToSet(deletes) :
          AnyDeleteAcknowledged(r) =>
              /\ r.id \notin Range(datasets')
              /\ \A q \in BagToSet(deletes') : q.id # r.id]_vars

\* C28: when the three initialization fetches have succeeded, the dataset
\* sequence and the query history are the lists the remote returned.
RemoteListsUnwrapped ==
    (initPc = "done" /\ surfaced = "") =>
        /\ datasets = remoteDatasets
        /\ queryHistory = remoteQueries

\* C29: an upload completing while a dataset is selected leaves the selection
\* and puts the new dataset in front of the dataset sequence.
UploadKeepsSelection ==
    [][\A r \in uploads :
          (UploadAnswered(r) /\ selectedDataset # Null) =>
              /\ selectedDataset' = selectedDataset
              /\ datasets' = <<r.id>> \o datasets]_vars

\* C30 (pointer validity): the current lesson is a lesson of the current
\* level.
PointerValid ==
    /\ currentLevel \in 1..Len(tutorialLevels)
    /\ currentLesson \in 1..Len(tutorialLevels[currentLevel].lessons)

EventuallyReady ==
    /\ <>(~loading)
    /\ [][loading =>
            UNCHANGED <<currentView, selectedDataset, uploadVars, editorVars,
                        managerVars, tutorialVars, flightVars>>]_vars

\* ready after the dataset fetch failed, with the tutorial in use
EventuallyReadyWitness ==
    /\ ~loading
    /\ config = "remote"
    /\ datasets = << >>
    /\ remoteDatasets # << >>
    /\ apiVariant = "interceptor"
    /\ completedLessons # {}

====
